---- MODULE Spec2Model ----
(***************************************************************************)
(* A model of muzero-rs: the tic-tac-toe game (src/src/tic_tac_toe.rs) and *)
(* the Monte Carlo tree search built on the Game trait (src/src/mcts.rs).  *)
(*                                                                         *)
(* Option<T> is modelled as a sequence: None is <<>> and Some(x) is <<x>>. *)
(* A Vec is a sequence, a HashMap a function, a Result a record.           *)
(***************************************************************************)
EXTENDS Integers, Sequences, FiniteSets, TLC

\* Number of threads that may run a search at the same time (SpecConc).
NumThreads == 2

Threads == 1 .. NumThreads

\* The thread that runs main() / a single test.
MainThread == 1

None == <<>>

Some(x) == <<x>>

Range(s) == {s[i] : i \in DOMAIN s}

-----------------------------------------------------------------------------
(* tic_tac_toe.rs *)

Player == {"X", "O"}

Empty == "Empty"

Filled(p) == p

Spot == {Empty} \cup {Filled(p) : p \in Player}

\* the index range of spots: [[Spot; 3]; 3]
Idx == 0 .. 2

Cells == Idx \X Idx

\* the (row, col) pairs in the order the nested loops of
\* get_available_moves visit them
RowMajor == << <<0, 0>>, <<0, 1>>, <<0, 2>>,
               <<1, 0>>, <<1, 1>>, <<1, 2>>,
               <<2, 0>>, <<2, 1>>, <<2, 2>> >>

TicTacToe == [spots : [Cells -> Spot], current_player : Player]

\* TicTacToe::new
New == [spots |-> [c \in Cells |-> Empty], current_player |-> "X"]

\* the rows, columns and diagonals in the order check_winner tests them;
\* the first cell of each line is the one matched by `if let`
Lines == << << <<0, 0>>, <<0, 1>>, <<0, 2>> >>,
            << <<1, 0>>, <<1, 1>>, <<1, 2>> >>,
            << <<2, 0>>, <<2, 1>>, <<2, 2>> >>,
            << <<0, 0>>, <<1, 0>>, <<2, 0>> >>,
            << <<0, 1>>, <<1, 1>>, <<2, 1>> >>,
            << <<0, 2>>, <<1, 2>>, <<2, 2>> >>,
            << <<0, 0>>, <<1, 1>>, <<2, 2>> >>,
            << <<0, 2>>, <<1, 1>>, <<2, 0>> >> >>

\* a line test that looks at the first two cells of the line only
LineFilled_first_two(game, i) ==
    /\ game.spots[Lines[i][1]] # Empty
    /\ game.spots[Lines[i][2]] = game.spots[Lines[i][1]]

LineFilled(game, i) ==
    /\ game.spots[Lines[i][1]] # Empty
    /\ game.spots[Lines[i][2]] = game.spots[Lines[i][1]]
    /\ game.spots[Lines[i][3]] = game.spots[Lines[i][1]]

\* TicTacToe::check_winner: the player of the first complete line, else None
check_winner(game) ==
    LET hits == {i \in DOMAIN Lines : LineFilled(game, i)}
    IN  IF hits = {} THEN None
        ELSE LET first == CHOOSE i \in hits : \A j \in hits : i <= j
             IN  Some(game.spots[Lines[first][1]])

\* TicTacToe::get_available_moves: the empty cells, row by row
get_available_moves(game) ==
    SelectSeq(RowMajor, LAMBDA c : game.spots[c] = Empty)

\* a current_player that names the player who moved last
current_player_last_mover(game) == IF game.current_player = "X" THEN "O" ELSE "X"

\* TicTacToe::current_player
current_player(game) == game.current_player

\* a done() that forgets the winner test
done_no_winner_test(game) == get_available_moves(game) = <<>>

\* a done() that forgets the test for a full board
done_winner_only(game) == check_winner(game) # None

\* TicTacToe::done
done(game) ==
    check_winner(game) # None \/ get_available_moves(game) = <<>>

Other(p) == IF p = "X" THEN "O" ELSE "X"

Ok(reward) == [ok |-> TRUE, reward |-> reward]

Err == [ok |-> FALSE, reward |-> 0]

\* a step that switches the player before it finds the spot filled
step_err_switches(game, action) ==
    LET after == [spots |-> [game.spots EXCEPT ![action] = Filled(game.current_player)],
                  current_player |-> Other(game.current_player)]
    IN  IF game.spots[action] = Empty
        THEN [game |-> after,
              result |-> Ok(IF check_winner(after) # None THEN 1 ELSE 0)]
        ELSE [game |-> [game EXCEPT !.current_player = Other(@)], result |-> Err]

\* a step that fills the spot and leaves the turn with the same player
step_keeps_player(game, action) ==
    LET after == [game EXCEPT !.spots[action] = Filled(game.current_player)]
    IN  IF game.spots[action] = Empty
        THEN [game |-> after,
              result |-> Ok(IF check_winner(after) # None THEN 1 ELSE 0)]
        ELSE [game |-> game, result |-> Err]

\* TicTacToe::step: the game after the call and the Result it returns
step(game, action) ==
    IF game.spots[action] = Empty
    THEN LET after == [spots |-> [game.spots EXCEPT ![action] = Filled(game.current_player)],
                       current_player |-> Other(game.current_player)]
         IN  [game |-> after,
              result |-> Ok(IF check_winner(after) # None THEN 1 ELSE 0)]
    ELSE [game |-> game, result |-> Err]

-----------------------------------------------------------------------------
(* mcts.rs *)

VARIABLES
    game,          \* game[t]: the TicTacToe owned by the caller on thread t
    result,        \* result[t]: what the caller's last game.step returned
    pc,            \* pc[t]: where thread t stands
    NODE_COUNTER,  \* static NODE_COUNTER: AtomicUsize, shared by all threads
    db,            \* db[t]: the NodeMap of the search running on thread t
    root,          \* root[t]: `root` of search
    path,          \* path[t]: `path` of search
    leaf,          \* leaf[t]: `leaf` of search
    clone,         \* clone[t]: the shadowing `game` of search, game.clone()
    expanded,      \* expanded[t]: the NodeId expansion returned
    winner,        \* winner[t]: `winner` of search
    issued,        \* history: the NodeIds handed out, in the order of the fetch_adds
    created,       \* history: created[t][id], the legal actions Node::new read for id
    clobbered,     \* history: clobbered[t], a db.insert replaced a stored node
    step_log       \* history: step_log[t], what search's step calls were made on

vars == <<game, result, pc, NODE_COUNTER, db, root, path, leaf, clone,
          expanded, winner, issued, created, clobbered, step_log>>

\* pc values of a thread that a panic has unwound, named by the line that panicked
Panics == {"todo69", "todo94", "unwrap99", "unwrap115", "unwrap118", "unwrap139"}

\* an empty HashMap
EmptyMap == [k \in {} |-> 0]

\* HashMap::insert
Insert(map, k, v) == [x \in DOMAIN map \cup {k} |-> IF x = k THEN v ELSE map[x]]

\* a counter whose value is read but not advanced
fetch_no_add(counter) == [id |-> counter, counter |-> counter]

\* NodeId::new: fetch_add(1, SeqCst) returns the previous value, atomically
NodeId_new(counter) == [id |-> counter, counter |-> counter + 1]

\* Node::new: the node built from `game`, stored under a fresh id
Node_new(map, g, parent, counter) ==
    LET available_moves == get_available_moves(g)
        node == [visits |-> 0,
                 reward |-> 0,
                 to_play |-> current_player(g),
                 parent |-> parent,
                 children |-> EmptyMap,
                 unvisited_actions |-> available_moves,
                 done |-> done(g)]
        fresh == NodeId_new(counter)
    IN  [db |-> Insert(map, fresh.id, node),
         node_id |-> fresh.id,
         counter |-> fresh.counter,
         replaced |-> fresh.id \in DOMAIN map,
         moves |-> Range(available_moves)]

\* a Node::new that drops the parent it is given
Node_new_orphan(map, g, parent, counter) == Node_new(map, g, None, counter)

\* Node::new as search and expansion call it
Node_create(map, g, parent, counter) == Node_new(map, g, parent, counter)

\* Mcts::best_child: todo!()
best_child(map, node_id) == [panic |-> "todo94", action |-> None, child |-> None]

RECURSIVE selection_loop(_, _, _)
\* the loop of Mcts::selection, from node_id with the path walked so far
selection_loop(map, node_id, walked) ==
    LET node == map[node_id]
    IN  IF node.done
        THEN [panic |-> "", path |-> walked, leaf |-> node_id]
        ELSE IF node.unvisited_actions = <<>>
        THEN LET best == best_child(map, node_id)
             IN  IF best.panic # ""
                 THEN [panic |-> best.panic, path |-> walked, leaf |-> node_id]
                 ELSE selection_loop(map, best.child[1], Append(walked, best.action[1]))
        ELSE [panic |-> "", path |-> walked, leaf |-> node_id]

\* a selection that does not look at the done flag
selection_no_done_test(map, root_id) ==
    IF map[root_id].unvisited_actions = <<>>
    THEN [panic |-> best_child(map, root_id).panic, path |-> <<>>, leaf |-> root_id]
    ELSE [panic |-> "", path |-> <<>>, leaf |-> root_id]

\* Mcts::selection
selection(map, root_id) == selection_loop(map, root_id, <<>>)

RECURSIVE apply_actions(_, _)
\* Mcts::apply_actions: step through `actions`, unwrapping every result;
\* calls lists the step calls made as <<state before, action>>
apply_actions(g, actions) ==
    IF actions = <<>>
    THEN [panic |-> "", game |-> g, calls |-> <<>>]
    ELSE LET r == step(g, Head(actions))
         IN  IF ~r.result.ok
             THEN [panic |-> "unwrap99", game |-> r.game, calls |-> << <<g, Head(actions)>> >>]
             ELSE LET rest == apply_actions(r.game, Tail(actions))
                  IN  [rest EXCEPT !.calls = << <<g, Head(actions)>> >> \o @]

\* a pop that reads the last element and leaves the vector as it is
Peek(v) ==
    IF v = <<>> THEN [item |-> None, rest |-> v]
    ELSE [item |-> Some(v[Len(v)]), rest |-> v]

\* Vec::pop: the last element, if any, and the vector without it
Pop(v) ==
    IF v = <<>> THEN [item |-> None, rest |-> v]
    ELSE [item |-> Some(v[Len(v)]), rest |-> SubSeq(v, 1, Len(v) - 1)]

\* what expansion returns when it leaves everything as it found it
expansion_unchanged(map, node_id, g, counter, panic) ==
    [panic |-> panic, db |-> map, game |-> g, node_id |-> node_id,
     counter |-> counter, calls |-> <<>>, replaced |-> FALSE, made |-> None,
     moves |-> {}]

\* the rest of Mcts::expansion for a node that is not done
expansion_grow(map, node_id, g, counter) ==
    LET popped == Pop(map[node_id].unvisited_actions)
    IN  IF popped.item = None
        THEN expansion_unchanged(map, node_id, g, counter, "unwrap115")
        ELSE
        LET action == popped.item[1]
            map1 == [map EXCEPT ![node_id].unvisited_actions = popped.rest]
            r == step(g, action)
        IN  IF ~r.result.ok
            THEN [expansion_unchanged(map1, node_id, r.game, counter, "unwrap118")
                    EXCEPT !.calls = << <<g, action>> >>]
            ELSE
            LET made == Node_create(map1, r.game, Some(node_id), counter)
                map2 == [made.db EXCEPT ![node_id].children =
                                            Insert(@, action, made.node_id)]
            IN  [panic |-> "", db |-> map2, game |-> r.game,
                 node_id |-> made.node_id, counter |-> made.counter,
                 calls |-> << <<g, action>> >>, replaced |-> made.replaced,
                 made |-> Some(made.node_id), moves |-> made.moves]

\* an expansion without the early return for a done node
expansion_no_done_test(map, node_id, g, counter) ==
    expansion_grow(map, node_id, g, counter)

\* an expansion that creates the node and does not insert it into children
expansion_no_link(map, node_id, g, counter) ==
    IF map[node_id].done
    THEN expansion_unchanged(map, node_id, g, counter, "")
    ELSE LET r == expansion_grow(map, node_id, g, counter)
         IN  [r EXCEPT !.db = [r.db EXCEPT ![node_id].children = map[node_id].children]]

\* Mcts::expansion
expansion(map, node_id, g, counter) ==
    IF map[node_id].done
    THEN expansion_unchanged(map, node_id, g, counter, "")
    ELSE expansion_grow(map, node_id, g, counter)

\* the history of step calls, extended by `calls`
Logged(log, calls) ==
    [illegal |-> log.illegal \/ \E i \in DOMAIN calls :
                     calls[i][2] \notin Range(get_available_moves(calls[i][1])),
     on_done |-> log.on_done \/ \E i \in DOMAIN calls : done(calls[i][1]),
     count |-> log.count + Len(calls)]

\* the moves a rollout may draw from when it draws from the whole board
any_cell(g) == RowMajor

\* the moves Mcts::simulation draws from: available_moves.iter().choose(..)
rollout_moves(g) == get_available_moves(g)

-----------------------------------------------------------------------------
(* the threads *)

NoLog == [illegal |-> FALSE, on_done |-> FALSE, count |-> 0]

\* what a thread holds before it calls search
Idle(board) ==
    /\ game = [t \in Threads |-> board[t]]
    /\ result = [t \in Threads |-> None]
    /\ NODE_COUNTER = 0
    /\ db = [t \in Threads |-> EmptyMap]
    /\ root = [t \in Threads |-> None]
    /\ path = [t \in Threads |-> <<>>]
    /\ leaf = [t \in Threads |-> None]
    /\ clone = [t \in Threads |-> None]
    /\ expanded = [t \in Threads |-> None]
    /\ winner = [t \in Threads |-> None]
    /\ issued = <<>>
    /\ created = [t \in Threads |-> EmptyMap]
    /\ clobbered = [t \in Threads |-> FALSE]
    /\ step_log = [t \in Threads |-> NoLog]

\* main() on the main thread with a new game; no other thread runs
Init ==
    /\ Idle([t \in Threads |-> New])
    /\ pc = [t \in Threads |-> IF t = MainThread THEN "play" ELSE "idle"]

\* the caller's step of main's loop: game.step((row, col))? unless game.done()
Play(t) ==
    /\ pc[t] = "play"
    /\ ~done(game[t])
    /\ \E action \in Cells :
         LET r == step(game[t], action)
         IN  /\ game' = [game EXCEPT ![t] = r.game]
             /\ result' = [result EXCEPT ![t] = Some(r.result)]
             /\ pc' = [pc EXCEPT ![t] = IF r.result.ok THEN "play" ELSE "exit_err"]
    /\ UNCHANGED <<NODE_COUNTER, db, root, path, leaf, clone, expanded, winner,
                   issued, created, clobbered, step_log>>

\* Mcts::search, lines 61-62: a new NodeMap with the root node in it
SearchRoot(t) ==
    /\ pc[t] = "play"
    /\ LET made == Node_create(EmptyMap, game[t], None, NODE_COUNTER)
       IN  /\ db' = [db EXCEPT ![t] = made.db]
           /\ root' = [root EXCEPT ![t] = Some(made.node_id)]
           /\ NODE_COUNTER' = made.counter
           /\ issued' = Append(issued, made.node_id)
           /\ created' = [created EXCEPT ![t] = Insert(EmptyMap, made.node_id, made.moves)]
           /\ clobbered' = [clobbered EXCEPT ![t] = made.replaced]
    /\ pc' = [pc EXCEPT ![t] = "selection"]
    /\ UNCHANGED <<game, result, path, leaf, clone, expanded, winner, step_log>>

\* Mcts::search, line 64: selection
Selection(t) ==
    /\ pc[t] = "selection"
    /\ LET s == selection(db[t], root[t][1])
       IN  IF s.panic # ""
           THEN /\ pc' = [pc EXCEPT ![t] = s.panic]
                /\ UNCHANGED <<path, leaf>>
           ELSE /\ pc' = [pc EXCEPT ![t] = "apply_actions"]
                /\ path' = [path EXCEPT ![t] = s.path]
                /\ leaf' = [leaf EXCEPT ![t] = Some(s.leaf)]
    /\ UNCHANGED <<game, result, NODE_COUNTER, db, root, clone, expanded, winner,
                   issued, created, clobbered, step_log>>

\* Mcts::search, lines 65-66: the clone of the caller's game, stepped along path
ApplyActions(t) ==
    /\ pc[t] = "apply_actions"
    /\ LET r == apply_actions(game[t], path[t])
       IN  /\ clone' = [clone EXCEPT ![t] = Some(r.game)]
           /\ step_log' = [step_log EXCEPT ![t] = Logged(@, r.calls)]
           /\ pc' = [pc EXCEPT ![t] = IF r.panic # "" THEN r.panic ELSE "expansion"]
    /\ UNCHANGED <<game, result, NODE_COUNTER, db, root, path, leaf, expanded,
                   winner, issued, created, clobbered>>

\* an expansion that steps the caller's game as well as the clone
ExpansionThroughAlias(t) ==
    /\ pc[t] = "expansion"
    /\ LET r == expansion(db[t], leaf[t][1], clone[t][1], NODE_COUNTER)
       IN  /\ db' = [db EXCEPT ![t] = r.db]
           /\ clone' = [clone EXCEPT ![t] = Some(r.game)]
           /\ game' = [game EXCEPT ![t] = r.game]
           /\ NODE_COUNTER' = r.counter
           /\ step_log' = [step_log EXCEPT ![t] = Logged(@, r.calls)]
           /\ issued' = issued \o r.made
           /\ created' = [created EXCEPT ![t] =
                            IF r.made = None THEN @ ELSE Insert(@, r.made[1], r.moves)]
           /\ clobbered' = [clobbered EXCEPT ![t] = @ \/ r.replaced]
           /\ expanded' = [expanded EXCEPT ![t] =
                             IF r.panic # "" THEN @ ELSE Some(r.node_id)]
           /\ pc' = [pc EXCEPT ![t] = IF r.panic # "" THEN r.panic ELSE "simulation"]
    /\ UNCHANGED <<result, root, path, leaf, winner>>

\* Mcts::search, line 67: expansion of the leaf on the clone
Expansion(t) ==
    /\ pc[t] = "expansion"
    /\ LET r == expansion(db[t], leaf[t][1], clone[t][1], NODE_COUNTER)
       IN  /\ db' = [db EXCEPT ![t] = r.db]
           /\ clone' = [clone EXCEPT ![t] = Some(r.game)]
           /\ NODE_COUNTER' = r.counter
           /\ step_log' = [step_log EXCEPT ![t] = Logged(@, r.calls)]
           /\ issued' = issued \o r.made
           /\ created' = [created EXCEPT ![t] =
                            IF r.made = None THEN @ ELSE Insert(@, r.made[1], r.moves)]
           /\ clobbered' = [clobbered EXCEPT ![t] = @ \/ r.replaced]
           /\ expanded' = [expanded EXCEPT ![t] =
                             IF r.panic # "" THEN @ ELSE Some(r.node_id)]
           /\ pc' = [pc EXCEPT ![t] = IF r.panic # "" THEN r.panic ELSE "simulation"]
    /\ UNCHANGED <<game, result, root, path, leaf, winner>>

\* a rollout move that steps a copy and keeps the game it was given
SimulationMoveOnCopy(t) ==
    /\ pc[t] = "simulation"
    /\ check_winner(clone[t][1]) = None
    /\ get_available_moves(clone[t][1]) # <<>>
    /\ \E i \in DOMAIN rollout_moves(clone[t][1]) :
         LET action == rollout_moves(clone[t][1])[i]
             r == step(clone[t][1], action)
         IN  /\ step_log' = [step_log EXCEPT ![t] =
                               Logged(@, << <<clone[t][1], action>> >>)]
             /\ pc' = [pc EXCEPT ![t] = IF r.result.ok THEN "simulation" ELSE "unwrap139"]
    /\ UNCHANGED <<game, result, NODE_COUNTER, db, root, path, leaf, clone, expanded,
                   winner, issued, created, clobbered>>

\* a rollout move made without looking for a winner first
SimulationMoveNoWinnerTest(t) ==
    /\ pc[t] = "simulation"
    /\ get_available_moves(clone[t][1]) # <<>>
    /\ \E i \in DOMAIN rollout_moves(clone[t][1]) :
         LET action == rollout_moves(clone[t][1])[i]
             r == step(clone[t][1], action)
         IN  /\ clone' = [clone EXCEPT ![t] = Some(r.game)]
             /\ step_log' = [step_log EXCEPT ![t] =
                               Logged(@, << <<clone[t][1], action>> >>)]
             /\ pc' = [pc EXCEPT ![t] = IF r.result.ok THEN "simulation" ELSE "unwrap139"]
    /\ UNCHANGED <<game, result, NODE_COUNTER, db, root, path, leaf, expanded,
                   winner, issued, created, clobbered>>

\* Mcts::simulation, lines 131-139: one random move of the rollout
SimulationMove(t) ==
    /\ pc[t] = "simulation"
    /\ check_winner(clone[t][1]) = None
    /\ get_available_moves(clone[t][1]) # <<>>
    /\ \E i \in DOMAIN rollout_moves(clone[t][1]) :
         LET action == rollout_moves(clone[t][1])[i]
             r == step(clone[t][1], action)
         IN  /\ clone' = [clone EXCEPT ![t] = Some(r.game)]
             /\ step_log' = [step_log EXCEPT ![t] =
                               Logged(@, << <<clone[t][1], action>> >>)]
             /\ pc' = [pc EXCEPT ![t] = IF r.result.ok THEN "simulation" ELSE "unwrap139"]
    /\ UNCHANGED <<game, result, NODE_COUNTER, db, root, path, leaf, expanded,
                   winner, issued, created, clobbered>>

\* a return of the rollout that looks for legal actions before a winner
SimulationReturnMovesFirst(t) ==
    /\ pc[t] = "simulation"
    /\ check_winner(clone[t][1]) # None \/ get_available_moves(clone[t][1]) = <<>>
    /\ winner' = [winner EXCEPT ![t] =
                    IF get_available_moves(clone[t][1]) = <<>> THEN None
                    ELSE check_winner(clone[t][1])]
    /\ pc' = [pc EXCEPT ![t] = "todo69"]
    /\ UNCHANGED <<game, result, NODE_COUNTER, db, root, path, leaf, clone,
                   expanded, issued, created, clobbered, step_log>>

\* Mcts::simulation, lines 128-134, returns; Mcts::search, line 69: todo!()
SimulationReturn(t) ==
    /\ pc[t] = "simulation"
    /\ check_winner(clone[t][1]) # None \/ get_available_moves(clone[t][1]) = <<>>
    /\ winner' = [winner EXCEPT ![t] = check_winner(clone[t][1])]
    /\ pc' = [pc EXCEPT ![t] = "todo69"]
    /\ UNCHANGED <<game, result, NODE_COUNTER, db, root, path, leaf, clone,
                   expanded, issued, created, clobbered, step_log>>

\* Mcts::search on thread t
Search(t) ==
    \/ SearchRoot(t)
    \/ Selection(t)
    \/ ApplyActions(t)
    \/ Expansion(t)
    \/ SimulationMove(t)
    \/ SimulationReturn(t)

Next == \E t \in Threads : Play(t) \/ Search(t)

Spec == Init /\ [][Next]_vars

-----------------------------------------------------------------------------
(* several searches at once: each thread owns a game and calls search *)

RECURSIVE Replay(_, _)
\* the game after stepping through `moves` from g, as the tests build a position
Replay(g, moves) ==
    IF moves = <<>> THEN g ELSE Replay(step(g, Head(moves)).game, Tail(moves))

\* O to move, (2, 0) and (2, 2) empty, nobody has won
TwoLeft == Replay(New, << <<1, 1>>, <<0, 0>>, <<0, 1>>, <<2, 1>>,
                          <<1, 0>>, <<1, 2>>, <<0, 2>> >>)

\* X to move, only (1, 0) empty, nobody has won
OneLeft == Replay(New, << <<0, 0>>, <<1, 1>>, <<2, 2>>, <<0, 1>>,
                          <<2, 1>>, <<2, 0>>, <<0, 2>>, <<1, 2>> >>)

\* X has won with the top row, four cells are empty
WonEarly == Replay(New, << <<0, 0>>, <<1, 0>>, <<0, 1>>, <<1, 1>>, <<0, 2>> >>)

Positions == {TwoLeft, OneLeft, WonEarly}

InitConc ==
    /\ \E board \in [Threads -> Positions] : Idle(board)
    /\ pc = [t \in Threads |-> "play"]

NextConc == \E t \in Threads : Search(t)

SpecConc == InitConc /\ [][NextConc]_vars

-----------------------------------------------------------------------------
(* selection on a tree whose root is fully expanded *)

\* the most visits a child of the drawn trees has
MaxVisits == 3

\* the (visits, reward) a child can hold after 1 .. MaxVisits rollouts through it
Stats == {s \in (1 .. MaxVisits) \X (0 .. MaxVisits) : s[2] <= s[1]}

RECURSIVE FullyExpanded(_, _, _)
\* the root's NodeMap after expansion has run on it until no action is unvisited
FullyExpanded(map, g, counter) ==
    IF map[0].unvisited_actions = <<>> THEN map
    ELSE FullyExpanded(expansion(map, 0, g, counter).db, g, counter + 1)

\* the tree of TwoLeft with both children created and the statistics `stats`
\* (child id -> <<visits, reward>>) on them
Visited(stats) ==
    LET map == FullyExpanded(Node_new(EmptyMap, TwoLeft, None, 0).db, TwoLeft, 1)
    IN  [id \in DOMAIN map |->
           IF id = 0
           THEN [map[id] EXCEPT !.visits = stats[1][1] + stats[2][1]]
           ELSE [map[id] EXCEPT !.visits = stats[id][1], !.reward = stats[id][2]]]

\* thread MainThread is about to run selection on a drawn tree
InitSelect ==
    \E stats \in [1 .. 2 -> Stats] :
      /\ game = [t \in Threads |-> TwoLeft]
      /\ result = [t \in Threads |-> None]
      /\ pc = [t \in Threads |-> IF t = MainThread THEN "selection" ELSE "idle"]
      /\ NODE_COUNTER = 3
      /\ db = [t \in Threads |-> IF t = MainThread THEN Visited(stats) ELSE EmptyMap]
      /\ root = [t \in Threads |-> IF t = MainThread THEN Some(0) ELSE None]
      /\ path = [t \in Threads |-> <<>>]
      /\ leaf = [t \in Threads |-> None]
      /\ clone = [t \in Threads |-> None]
      /\ expanded = [t \in Threads |-> None]
      /\ winner = [t \in Threads |-> None]
      /\ issued = <<0, 1, 2>>
      /\ created = [t \in Threads |->
                      IF t = MainThread
                      THEN [id \in 0 .. 2 |->
                              Range(Visited(stats)[id].unvisited_actions)
                              \cup DOMAIN Visited(stats)[id].children]
                      ELSE EmptyMap]
      /\ clobbered = [t \in Threads |-> FALSE]
      /\ step_log = [t \in Threads |-> NoLog]

NextSelect == \E t \in Threads : Selection(t)

SpecSelect == InitSelect /\ [][NextSelect]_vars

-----------------------------------------------------------------------------
(* the properties *)

\* thread t is inside a call of search
InSearch(t) == pc[t] \notin {"play", "exit_err", "idle"}

\* a winner exists or no legal action is left
Terminal(g) == check_winner(g) # None \/ get_available_moves(g) = <<>>

\* the root node of the search on thread t
RootNode(t) == db[t][root[t][1]]

\* C1: a search called on a game that is not terminal never aborts: it ends by
\* returning one of the legal actions of that game.
C1_SearchReturnsLegalAction ==
    \A t \in Threads :
        (InSearch(t) /\ ~Terminal(game[t])) => pc[t] \notin Panics

\* C2: when the iterations of a search are over (here the single pass of
\* selection, expansion and simulation), the root has been visited once per
\* iteration.
C2_RootVisitsEqualBudget ==
    \A t \in Threads : pc[t] = "todo69" => RootNode(t).visits = 1

\* C3: every step call search makes is given an action that
\* get_available_moves lists for the state it is applied to, so none returns
\* Err and no unwrap of a step result aborts.
C3_StepsAreLegal ==
    \A t \in Threads :
        /\ ~step_log[t].illegal
        /\ pc[t] \notin {"unwrap99", "unwrap118", "unwrap139"}

\* search has stepped its clone in expansion and again in the rollout
C3_Witness ==
    \E t \in Threads : pc[t] = "todo69" /\ step_log[t].count >= 3

\* the children keys and the unvisited actions of every node are disjoint and
\* together are the legal actions read when the node was created
C4_Partition ==
    \A t \in Threads :
        /\ \A id \in DOMAIN db[t] :
             LET tried == DOMAIN db[t][id].children
                 untried == Range(db[t][id].unvisited_actions)
             IN  /\ tried \cap untried = {}
                 /\ tried \cup untried = created[t][id]
                 /\ Len(db[t][id].unvisited_actions) = Cardinality(untried)
        /\ root[t] # None =>
             created[t][root[t][1]] = Range(get_available_moves(game[t]))

\* no node leaves the store, unvisited_actions loses and children gains
C4_Monotone ==
    \A t \in Threads : \A id \in DOMAIN db[t] :
        /\ id \in DOMAIN db'[t]
        /\ Range(db'[t][id].unvisited_actions) \subseteq Range(db[t][id].unvisited_actions)
        /\ DOMAIN db[t][id].children \subseteq DOMAIN db'[t][id].children

\* C4: for every node, at every point of its life, children keys and
\* unvisited_actions are disjoint and their union is the set of legal actions
\* of the state the node was created from; unvisited_actions only shrinks and
\* children only grows.
C4_ChildrenAndUnvisitedPartition == [](C4_Partition) /\ [][C4_Monotone]_vars

\* a node has given one of its unvisited actions to a child
C4_Witness ==
    \E t \in Threads : \E id \in DOMAIN db[t] :
        /\ db[t][id].children # EmptyMap
        /\ db[t][id].unvisited_actions # <<>>

\* the value of child c seen from its parent, 1 - reward / visits, is at
\* least that of child o (cross-multiplied, visits >= 1)
ParentValueAtLeast(c, o) ==
    (c.visits - c.reward) * o.visits >= (o.visits - o.reward) * c.visits

C6_CallerGameUnchanged ==
    [][\A t \in Threads :
          (InSearch(t) \/ InSearch(t)') => game'[t] = game[t]]_vars

\* a search has run to its end and has stepped its clone away from the game
C6_Witness ==
    \E t \in Threads :
        pc[t] = "todo69" /\ clone[t] # Some(game[t]) /\ game[t] # New

\* C7: a search called on a terminal game never returns an action (it runs
\* into an abort) and creates no child for the root.
C7_TerminalSearchFails ==
    \A t \in Threads :
        (InSearch(t) /\ Terminal(game[t])) =>
            /\ DOMAIN db[t] = {root[t][1]}
            /\ RootNode(t).children = EmptyMap
            /\ pc[t] \in {"selection", "apply_actions", "expansion", "simulation"}
                         \cup Panics
            /\ (~ENABLED Next) => pc[t] \in Panics

\* a search on a won board that still has empty cells has aborted
C7_Witness ==
    \E t \in Threads :
        /\ pc[t] \in Panics
        /\ check_winner(game[t]) # None
        /\ get_available_moves(game[t]) # <<>>

\* a done node has no children
C8_DoneHasNoChildren ==
    \A t \in Threads : \A id \in DOMAIN db[t] :
        db[t][id].done => db[t][id].children = EmptyMap

\* expansion of a done leaf returns the leaf and changes nothing
C8_ExpansionOfDoneIsNoOp ==
    \A t \in Threads :
        (pc[t] = "expansion" /\ pc'[t] # "expansion" /\ db[t][leaf[t][1]].done) =>
            /\ pc'[t] = "simulation"
            /\ expanded'[t] = leaf[t]
            /\ db'[t] = db[t]
            /\ clone'[t] = clone[t]
            /\ NODE_COUNTER' = NODE_COUNTER

\* C8: a done node never acquires children, and expansion on a done node
\* returns that node's id, creates no node and leaves the node's
\* unvisited_actions and children and the game state unchanged.
C8_DoneNodesStayLeaves ==
    [](C8_DoneHasNoChildren) /\ [][C8_ExpansionOfDoneIsNoOp]_vars

\* expansion has returned a done leaf that still had unvisited actions
C8_Witness ==
    \E t \in Threads :
        /\ pc[t] = "simulation"
        /\ expanded[t] = leaf[t]
        /\ db[t][leaf[t][1]].done
        /\ db[t][leaf[t][1]].unvisited_actions # <<>>

RECURSIVE ReachesRoot(_, _, _, _)
\* following parent links from id arrives at root_id within `fuel` links
ReachesRoot(map, root_id, id, fuel) ==
    IF id = root_id THEN TRUE
    ELSE IF fuel = 0 \/ map[id].parent = None \/ map[id].parent[1] \notin DOMAIN map
    THEN FALSE
    ELSE ReachesRoot(map, root_id, map[id].parent[1], fuel - 1)

\* the shape of the tree in the store of thread t
C9_Tree ==
    \A t \in Threads : \A c \in DOMAIN db[t] :
        /\ db[t][c].parent = None <=> Some(c) = root[t]
        /\ \A n \in DOMAIN db[t] :
             (\E a \in DOMAIN db[t][n].children : db[t][n].children[a] = c)
                 <=> db[t][c].parent = Some(n)
        /\ \A n \in DOMAIN db[t] :
             Cardinality({a \in DOMAIN db[t][n].children : db[t][n].children[a] = c}) <= 1
        /\ ReachesRoot(db[t], root[t][1], c, Cardinality(DOMAIN db[t]))

\* the parent of a stored node does not change
C9_ParentFixed ==
    \A t \in Threads : \A id \in DOMAIN db[t] :
        id \in DOMAIN db'[t] /\ db'[t][id].parent = db[t][id].parent

\* C9: the root is the only node without a parent; every other node has one
\* parent, fixed at creation; c is stored in n.children exactly when c.parent
\* is n; parent links lead from every node to the root.
C9_ParentLinksFormATree == [](C9_Tree) /\ [][C9_ParentFixed]_vars

\* a store holds a root and a child of it
C9_Witness ==
    \E t \in Threads : \E c \in DOMAIN db[t] :
        db[t][c].parent = root[t] /\ root[t] # None

\* C10: NodeId::new never hands out an identifier twice, also when the
\* searches of several threads interleave their calls: the identifiers come
\* out strictly increasing, no two stores share one, and no insert replaces a
\* stored node.
C10_NodeIdsUnique ==
    /\ \A i, j \in DOMAIN issued : i < j => issued[i] < issued[j]
    /\ \A t \in Threads : ~clobbered[t] /\ DOMAIN db[t] \subseteq Range(issued)
    /\ \A t, u \in Threads : t # u => DOMAIN db[t] \cap DOMAIN db[u] = {}
    /\ Cardinality(Range(issued)) = Len(issued)
    /\ \A t \in Threads : \A id \in DOMAIN db[t] : id < NODE_COUNTER

\* two searches have taken their identifiers in turn
C10_Witness ==
    \E t, u \in Threads :
        /\ t # u
        /\ \E a, b \in DOMAIN db[t] : \E c \in DOMAIN db[u] : a < c /\ c < b

\* the searches of Spec together with selection on the drawn trees
SpecTrees == (Init \/ InitSelect) /\ [][Next]_vars

-----------------------------------------------------------------------------
(* check_winner on every board: the tests assign game.spots directly *)

\* the main thread holds a game with any spots and any player to move
InitBoards ==
    /\ \E spots \in [Cells -> Spot] : \E p \in Player :
         Idle([t \in Threads |->
                 IF t = MainThread THEN [spots |-> spots, current_player |-> p]
                 ELSE New])
    /\ pc = [t \in Threads |-> IF t = MainThread THEN "check_winner" ELSE "idle"]

\* game.check_winner(), as tests::test_check_winner calls it
CheckWinner(t) ==
    /\ pc[t] = "check_winner"
    /\ winner' = [winner EXCEPT ![t] = check_winner(game[t])]
    /\ pc' = [pc EXCEPT ![t] = "checked"]
    /\ UNCHANGED <<game, result, NODE_COUNTER, db, root, path, leaf, clone,
                   expanded, issued, created, clobbered, step_log>>

NextBoards == \E t \in Threads : CheckWinner(t)

SpecBoards == InitBoards /\ [][NextBoards]_vars

-----------------------------------------------------------------------------
(* the properties of tic_tac_toe.rs *)

\* the number of empty cells of g
Empties(g) == Cardinality({c \in Cells : g.spots[c] = Empty})

\* the number of cells of g that p fills
Marks(g, p) == Cardinality({c \in Cells : g.spots[c] = Filled(p)})

\* the three rows, the three columns and the two diagonals, as sets of cells
WinLines ==
    {{<<r, c>> : c \in Idx} : r \in Idx}
    \cup {{<<r, c>> : r \in Idx} : c \in Idx}
    \cup {{<<i, i>> : i \in Idx}, {<<i, 2 - i>> : i \in Idx}}

\* p fills all three cells of some line of g
HasLine(g, p) == \E l \in WinLines : \A c \in l : g.spots[c] = Filled(p)

\* a call of step on a filled spot gives Err and the game as it was
C11_FilledSpotIsRefused ==
    \A t \in Threads : \A a \in Cells :
        game[t].spots[a] # Empty =>
            step(game[t], a) = [game |-> game[t], result |-> Err]

\* the caller's failed step leaves its game as it was
C11_FailedStepKeepsGame ==
    \A t \in Threads :
        (pc[t] = "play" /\ pc'[t] = "exit_err") =>
            /\ result'[t] = Some(Err)
            /\ game'[t] = game[t]
            /\ \E a \in Cells : game[t].spots[a] # Empty

\* C11: step on a spot that is already filled returns an error and leaves
\* every cell of the board and current_player as they were.
C11_StepOnFilledSpotFails ==
    [](C11_FilledSpotIsRefused) /\ [][C11_FailedStepKeepsGame]_vars

\* the caller has stepped on a filled spot of a board with several marks
C11_Witness ==
    \E t \in Threads :
        pc[t] = "exit_err" /\ result[t] = Some(Err) /\ Empties(game[t]) <= 6

\* a successful step of the caller fills one empty cell with the player who
\* was to move, passes the turn on and leaves the other eight cells alone
C12_StepFillsOneCell ==
    \A t \in Threads :
        (pc[t] = "play" /\ pc'[t] = "play" /\ result'[t] # Some(Err)
         /\ <<game[t], result[t]>> # <<game'[t], result'[t]>>) =>
            /\ result'[t] \in {Some(Ok(0)), Some(Ok(1))}
            /\ \E a \in Cells :
                 /\ game[t].spots[a] = Empty
                 /\ game'[t].spots[a] = Filled(game[t].current_player)
                 /\ \A c \in Cells \ {a} : game'[t].spots[c] = game[t].spots[c]
            /\ game'[t].current_player # game[t].current_player
            /\ game'[t].current_player \in Player

\* every step on an empty spot of a reached game succeeds
C12_EmptySpotIsAccepted ==
    \A t \in Threads : \A a \in Cells :
        game[t].spots[a] = Empty => step(game[t], a).result.ok

\* from TicTacToe::new() the players take turns, X first
C12_Alternation ==
    \A t \in Threads :
        /\ Marks(game[t], "X") - Marks(game[t], "O") \in {0, 1}
        /\ game[t].current_player = "X" <=> Marks(game[t], "X") = Marks(game[t], "O")

\* C12: step on an empty spot succeeds, sets exactly that cell to Filled(p),
\* p the player who was to move, switches current_player and leaves the other
\* eight cells unchanged; from TicTacToe::new() the players alternate X, O, X.
C12_StepOnEmptySpot ==
    /\ [](C12_EmptySpotIsAccepted /\ C12_Alternation)
    /\ [][C12_StepFillsOneCell]_vars

\* X, O and X have moved
C12_Witness ==
    \E t \in Threads :
        /\ pc[t] = "play"
        /\ Marks(game[t], "X") = 2
        /\ Marks(game[t], "O") = 1
        /\ result[t] = Some(Ok(0))

\* C13: check_winner returns None exactly when no row, column or diagonal is
\* filled three times by one player, and the player it returns fills a line.
C13_CheckWinnerFindsLines ==
    \A t \in Threads :
        pc[t] = "checked" =>
            /\ winner[t] = None <=> ~\E p \in Player : HasLine(game[t], p)
            /\ \A p \in Player : winner[t] = Some(p) => HasLine(game[t], p)
            /\ winner[t] \in {None} \cup {Some(p) : p \in Player}

\* check_winner has returned O for a board on which X fills a line as well
C13_Witness ==
    \E t \in Threads :
        /\ pc[t] = "checked"
        /\ winner[t] = Some("O")
        /\ HasLine(game[t], "X")

-----------------------------------------------------------------------------
(* the properties of the phases of search *)

RECURSIVE OnDescent(_, _, _, _)
\* walked labels the child edges from node n to node l, every node before l
\* is one selection descends through, and l is one it stops at
OnDescent(map, n, walked, l) ==
    IF walked = <<>>
    THEN n = l /\ (map[n].done \/ map[n].unvisited_actions # <<>>)
    ELSE /\ ~map[n].done
         /\ map[n].unvisited_actions = <<>>
         /\ Head(walked) \in DOMAIN map[n].children
         /\ OnDescent(map, map[n].children[Head(walked)], Tail(walked), l)

\* what one call of selection does
C14_SelectionStep ==
    \A t \in Threads :
        (pc[t] = "selection" /\ pc'[t] # "selection") =>
            /\ db'[t] = db[t]
            /\ pc'[t] \in {"apply_actions", "todo94"}
            /\ pc'[t] = "apply_actions" =>
                 OnDescent(db[t], root[t][1], path'[t], leaf'[t][1])
            /\ pc'[t] = "todo94" =>
                 ~RootNode(t).done /\ RootNode(t).unvisited_actions = <<>>

\* C14: selection returns the first node of its descent that is done or has
\* an unvisited action, goes through a node (calling best_child) only when
\* that node is not done and has no unvisited action, returns the actions of
\* the edges it walked, and changes no node.
C14_SelectionStopsAtFirstOpenNode == [][C14_SelectionStep]_vars

\* selection has returned a root that is not done and has unvisited actions
C14_Witness ==
    \E t \in Threads :
        /\ pc[t] = "apply_actions"
        /\ leaf[t] = root[t]
        /\ path[t] = <<>>
        /\ ~RootNode(t).done
        /\ Len(RootNode(t).unvisited_actions) \in 1 .. 8

\* what expansion does to the store and to the clone
C15_ExpansionStep ==
    \A t \in Threads :
        (pc[t] = "expansion" /\ pc'[t] # "expansion") =>
            LET L == leaf[t][1]
                before == db[t]
                after == db'[t]
            IN  IF before[L].done
                THEN DOMAIN after = DOMAIN before
                ELSE
                /\ pc'[t] = "simulation"
                /\ \E a \in Range(before[L].unvisited_actions) :
                   \E N \in DOMAIN after \ DOMAIN before :
                     /\ DOMAIN after = DOMAIN before \cup {N}
                     /\ expanded'[t] = Some(N)
                     /\ Range(after[L].unvisited_actions) =
                            Range(before[L].unvisited_actions) \ {a}
                     /\ Len(after[L].unvisited_actions) =
                            Len(before[L].unvisited_actions) - 1
                     /\ clone'[t] = Some(step(clone[t][1], a).game)
                     /\ clone[t][1].spots[a] = Empty
                     /\ after[N] = [visits |-> 0,
                                    reward |-> 0,
                                    to_play |-> clone'[t][1].current_player,
                                    parent |-> Some(L),
                                    children |-> EmptyMap,
                                    unvisited_actions |->
                                        get_available_moves(clone'[t][1]),
                                    done |-> Terminal(clone'[t][1])]
                     /\ DOMAIN after[L].children = DOMAIN before[L].children \cup {a}
                     /\ a \notin DOMAIN before[L].children
                     /\ after[L].children[a] = N
                     /\ \A b \in DOMAIN before[L].children :
                            after[L].children[b] = before[L].children[b]
                     /\ after[L] = [before[L] EXCEPT
                                      !.unvisited_actions = after[L].unvisited_actions,
                                      !.children = after[L].children]
                     /\ \A id \in DOMAIN before \ {L} : after[id] = before[id]

\* C15: expansion of a node L that is not done takes one action a out of
\* L.unvisited_actions, steps the game with it, stores one new node N (parent
\* L, no visits, no reward, no children, the rest read from the stepped
\* game), sets L.children[a] to N, returns N and changes no other node; the
\* store grows by one node, and by none when L is done.
C15_ExpansionAddsOneChild == [][C15_ExpansionStep]_vars

\* expansion has added a child that is itself done
C15_Witness ==
    \E t \in Threads :
        /\ pc[t] = "simulation"
        /\ expanded[t] # leaf[t]
        /\ db[t][expanded[t][1]].done
        /\ db[t][expanded[t][1]].parent = leaf[t]

\* what the rollout does in one turn of its loop
C16_SimulationStep ==
    \A t \in Threads :
        /\ (pc[t] = "simulation" /\ pc'[t] = "todo69") =>
             /\ db'[t] = db[t]
             /\ clone'[t] = clone[t]
             /\ \A p \in Player : winner'[t] = Some(p) => HasLine(clone[t][1], p)
             /\ winner'[t] = None =>
                  /\ ~\E p \in Player : HasLine(clone[t][1], p)
                  /\ Empties(clone[t][1]) = 0
             /\ winner'[t] \in {None} \cup {Some(p) : p \in Player}
        /\ (pc[t] = "simulation" /\ pc'[t] \in {"simulation", "unwrap139"}) =>
             /\ db'[t] = db[t]
             /\ ~\E p \in Player : HasLine(clone[t][1], p)
             /\ Empties(clone[t][1]) > 0

\* C16: simulation returns Some(w) exactly when the rollout has reached a
\* state with winner w and None exactly when it has reached one with no winner
\* and no legal action; it looks for the winner first, plays no move from a
\* state that has a winner, and changes no node.
C16_SimulationReturnsOutcome == [][C16_SimulationStep]_vars

\* a rollout of several moves has ended with a winner on a full board
C16_Witness ==
    \E t \in Threads :
        /\ pc[t] = "todo69"
        /\ winner[t] # None
        /\ Empties(clone[t][1]) = 0
        /\ step_log[t].count >= 3

\* every move of the rollout fills one empty cell
C17_MoveFillsACell ==
    \A t \in Threads :
        (pc[t] = "simulation" /\ pc'[t] # "todo69"
         /\ <<clone[t], step_log[t], pc[t]>> # <<clone'[t], step_log'[t], pc'[t]>>) =>
            /\ pc'[t] = "simulation"
            /\ Empties(clone'[t][1]) = Empties(clone[t][1]) - 1
            /\ step_log'[t].count = step_log[t].count + 1

\* the rollout is never stuck, and has made no more moves than cells were
\* empty when it started
C17_BoundedRollout ==
    \A t \in Threads :
        pc[t] = "simulation" =>
            /\ ENABLED (SimulationMove(t) \/ SimulationReturn(t))
            /\ step_log[t].count = Empties(game[t]) - Empties(clone[t][1])
            /\ step_log[t].count <= 9

\* C17: simulation on a TicTacToe board terminates whatever moves are drawn:
\* every turn of the loop that does not return fills one empty cell, so the
\* rollout ends after at most as many moves as cells were empty (at most 9).
C17_SimulationTerminates ==
    [](C17_BoundedRollout) /\ [][C17_MoveFillsACell]_vars

\* a rollout from the first move of a game has filled the board
C17_Witness ==
    \E t \in Threads :
        /\ pc[t] = "todo69"
        /\ game[t] = New
        /\ step_log[t].count = 9

\* C18: the node selection hands to expansion is done or has an unvisited
\* action, so the pop().unwrap() of expansion never aborts; no node of the
\* store is at once not done, without unvisited actions and without children.
C18_ExpansionFindsAnAction ==
    \A t \in Threads :
        /\ pc[t] # "unwrap115"
        /\ pc[t] = "expansion" =>
             \/ db[t][leaf[t][1]].done
             \/ db[t][leaf[t][1]].unvisited_actions # <<>>
        /\ \A id \in DOMAIN db[t] :
             ~(/\ ~db[t][id].done
               /\ db[t][id].unvisited_actions = <<>>
               /\ db[t][id].children = EmptyMap)

\* expansion has popped the last unvisited action of a node that is not done
C18_Witness ==
    \E t \in Threads :
        /\ pc[t] = "simulation"
        /\ ~db[t][leaf[t][1]].done
        /\ db[t][leaf[t][1]].unvisited_actions = <<>>
        /\ db[t][leaf[t][1]].children # EmptyMap

\* C19: after apply_actions the clone is the game state of the selection
\* leaf: its player to move is the leaf's to_play, it is terminal exactly when
\* the leaf is done, and its legal actions are the leaf's children keys
\* together with its unvisited actions.
C19_CloneIsLeafState ==
    \A t \in Threads :
        pc[t] = "expansion" =>
            LET n == db[t][leaf[t][1]]
                g == clone[t][1]
            IN  /\ g.current_player = n.to_play
                /\ Terminal(g) <=> n.done
                /\ {c \in Cells : g.spots[c] = Empty} =
                       DOMAIN n.children \cup Range(n.unvisited_actions)
                /\ g = Replay(game[t], path[t])

\* the clone of a game in play stands at the leaf, O to move
C19_Witness ==
    \E t \in Threads :
        /\ pc[t] = "expansion"
        /\ db[t][leaf[t][1]].to_play = "O"
        /\ ~db[t][leaf[t][1]].done
        /\ clone[t] = Some(game[t])

\* C20: no step call of apply_actions, expansion or simulation is made on a
\* state that has a winner or no legal action, although step would accept a
\* move on an empty cell of a won board.
C20_NoStepOnDoneState ==
    \A t \in Threads :
        /\ ~step_log[t].on_done
        /\ (pc[t] = "simulation" /\ \E p \in Player : HasLine(clone[t][1], p)) =>
               ~ENABLED SimulationMove(t)

\* a rollout has stopped on a won board on which step would accept a move
C20_Witness ==
    \E t \in Threads : \E a \in Cells :
        /\ pc[t] = "todo69"
        /\ winner[t] # None
        /\ step_log[t].count >= 2
        /\ step(clone[t][1], a).result.ok

====
